---- MODULE Spec2Model ----
(***************************************************************************)
(* floatChat: the ARGO ingestion script (backend/ingest_data.py) and the   *)
(* /chat request handler (backend/main.py), as two state machines over one *)
(* set of variables.  SpecIngest runs main() of the ingestion script over  *)
(* a directory chosen in Init; SpecChat serves /chat requests.             *)
(***************************************************************************)
EXTENDS Integers, Sequences, FiniteSets

VARIABLES
    \* ---- ingest_data.py ----
    directory,      \* the entries of DATA_DIRECTORY, in os.listdir order
    ipc,            \* position of main(): "idle", "process", "write", "done", "aborted"
    run,            \* how many times main() has been started
    files,          \* main(): the list of *_prof.nc entries (indices into directory)
    idx,            \* main(): position of the for loop in files
    df_clean,       \* main(): result of process_nc_file for files[idx] (None or rows)
    table,          \* the argo_profiles table: a sequence of rows
    n_total,        \* main(): rows ingested by the current run
    log,            \* the lines printed about skipped profiles and files
    written,        \* per run, the rows each to_sql call of that run appended
    \* ---- main.py, one /chat request at a time ----
    pc,             \* position of handle_chat_query
    query,          \* chat_query.query, a string as its characters
    sql_query,      \* the SQL text generate_sql_from_query returned
    data_df,        \* the frame execute_sql_query returned
    sampled_data_df,\* the frame sample_large_dataset returned
    insights,       \* the text generate_insights returned
    plotly_json,    \* the chart generate_visualization returned
    response,       \* the HTTP response of the last request
    calls,          \* the collaborators' calls and local steps of this request, in order
    insights_arg,   \* the frame generate_insights was called with
    chart_arg,      \* the frame generate_visualization was called with
    executed_sql    \* the SQL text execute_sql_query sent to the database

ingestVars == <<directory, ipc, run, files, idx, df_clean, table, n_total, log, written>>

chatVars == <<pc, query, sql_query, data_df, sampled_data_df, insights, plotly_json,
              response, calls, insights_arg, chart_arg, executed_sql>>

vars == <<ingestVars, chatVars>>

-----------------------------------------------------------------------------
(* Bounds of the model *)

MaxProf == 2        \* profiles (N_PROF) per dataset
MaxRuns == 2        \* runs of main() over the directory
MaxRows == 5000     \* rows of a SQL result

-----------------------------------------------------------------------------
(* Values *)

\* A float64 / datetime cell: missing (NaN, NaT) or one value.
NaN == <<>>
Num(v) == <<v>>
IsMissing(x) == x = <<>>
Val(x) == x[1]

\* process_nc_file returns None or a data frame (its rows, in order).
None == [none |-> TRUE, rows |-> <<>>]
Frame(rows) == [none |-> FALSE, rows |-> rows]
IsEmptyFrame(df) == df.rows = <<>>

YEAR_FILTER == 2024

\* CORE_COLUMNS: source variable -> table column, in dict order.
CORE_COLUMNS ==
    << <<"PLATFORM_NUMBER", "platform_id">>,
       <<"CYCLE_NUMBER", "cycle_number">>,
       <<"LATITUDE", "latitude">>,
       <<"LONGITUDE", "longitude">>,
       <<"JULD", "timestamp">>,
       <<"PRES_ADJUSTED", "pressure">>,
       <<"TEMP_ADJUSTED", "temperature">>,
       <<"PSAL_ADJUSTED", "salinity">> >>

CoreSourceNames == {CORE_COLUMNS[i][1] : i \in 1..Len(CORE_COLUMNS)}

RawNames == {"PRES", "TEMP", "PSAL"}

\* pd.to_datetime(juld, origin='1950-01-01', unit='D'): the calendar year of
\* the day `days` after 1950-01-01.
IsLeap(y) == (y % 4 = 0 /\ y % 100 # 0) \/ y % 400 = 0
DaysIn(y) == IF IsLeap(y) THEN 366 ELSE 365

RECURSIVE YearFrom(_, _)
YearFrom(y, days) == IF days < DaysIn(y) THEN y ELSE YearFrom(y + 1, days - DaysIn(y))

to_datetime(juld) == IF IsMissing(juld) THEN NaN ELSE juld
YearOf(timestamp) == IF IsMissing(timestamp) THEN 0 ELSE YearFrom(1950, Val(timestamp))

-----------------------------------------------------------------------------
(* Inputs: the datasets a directory may hold *)

\* Per-level arrays of one profile (one row of a 2-D variable).
GoodLevels == <<Num(10), NaN, Num(20)>>
AllMissingLevels == <<NaN, NaN>>
NoLevels == <<>>
LevelArrays == {GoodLevels, AllMissingLevels, NoLevels}

\* JULD: day offsets 27027 = 2023-12-31 and 27028 = 2024-01-01, or missing.
Julds == {NaN, Num(27027), Num(27028)}

CleanProfile ==
    [JULD |-> Num(27028), PRES |-> GoodLevels, TEMP |-> GoodLevels,
     PSAL |-> GoodLevels, short |-> FALSE]

\* One profile of a dataset.  PRES/TEMP/PSAL are the levels of the *_ADJUSTED
\* variables; short says a per-profile 1-D variable has no entry for this
\* profile (var.values[prof] raises IndexError).
Profiles ==
    [JULD : Julds, PRES : LevelArrays, TEMP : LevelArrays, PSAL : LevelArrays,
     short : BOOLEAN]

ProfileFields == {"JULD", "PRES", "TEMP", "PSAL", "short"}

\* In how many fields the profiles of a dataset depart from the clean profile.
RECURSIVE Departures(_)
Departures(profiles) ==
    IF profiles = <<>> THEN 0
    ELSE Cardinality({f \in ProfileFields : Head(profiles)[f] # CleanProfile[f]})
         + Departures(Tail(profiles))

\* The profile lists of at most n profiles with at most one departure.
RECURSIVE ProfileLists(_)
ProfileLists(n) ==
    IF n = 0 THEN {<<>>}
    ELSE LET shorter == ProfileLists(n - 1)
         IN  shorter \cup
             {s \in {Append(t, x) : t \in {u \in shorter : Len(u) = n - 1}, x \in Profiles} :
                 Departures(s) <= 1}

\* The variables a dataset may carry: adjusted and raw, or raw only.
AllVariables == CoreSourceNames \cup RawNames
RawOnlyVariables ==
    (CoreSourceNames \ {"PRES_ADJUSTED", "TEMP_ADJUSTED", "PSAL_ADJUSTED"}) \cup RawNames

\* A directory entry: a name suffix, whether xr.open_dataset can read it, and
\* the dataset it holds.  The datasets without the adjusted variables hold
\* clean profiles only (their levels are never read).
Datasets ==
    [suffix : {"_prof.nc"}, readable : {TRUE}, variables : {AllVariables},
     profiles : ProfileLists(MaxProf)]
    \cup
    [suffix : {"_prof.nc"}, readable : {TRUE}, variables : {RawOnlyVariables},
     profiles : {s \in ProfileLists(MaxProf) : Departures(s) = 0}]

UnreadableEntry ==
    [suffix |-> "_prof.nc", readable |-> FALSE, variables |-> {}, profiles |-> <<>>]

OtherEntry ==
    [suffix |-> ".nc", readable |-> TRUE, variables |-> AllVariables,
     profiles |-> <<CleanProfile>>]

Entries == Datasets \cup {UnreadableEntry, OtherEntry}

Directories == {<<a>> : a \in Entries} \cup {<<a, b>> : a \in Entries, b \in Entries}

-----------------------------------------------------------------------------
(* ingest_data.py *)

\* extract_profiles, the body of the try block for profile prof: TRUE when it
\* raises (ds[nc_col] on a variable the dataset lacks, var.values[prof] past
\* the end of a 1-D variable).
ProfileRaises(ds, prof) ==
    \/ \E i \in 1..Len(CORE_COLUMNS) : CORE_COLUMNS[i][1] \notin ds.variables
    \/ ds.profiles[prof].short

\* extract_profiles: the record of profile prof before the year filter.
ProfileRecord(name, ds, prof) ==
    [platform_id |-> name,
     cycle_number |-> prof,
     timestamp |-> to_datetime(ds.profiles[prof].JULD),
     pressure |-> ds.profiles[prof].PRES,
     temperature |-> ds.profiles[prof].TEMP,
     salinity |-> ds.profiles[prof].PSAL]

\* extract_profiles, line 76: only profiles of the desired year are kept.
KeepsProfile(record) ==
    ~IsMissing(record.timestamp) /\ YearOf(record.timestamp) >= YEAR_FILTER

\* Mutant: the try block around the profile loop instead of inside it, so the
\* first profile that raises ends the extraction of the file.
RECURSIVE ExtractFrom_NoCatch(_, _, _)
ExtractFrom_NoCatch(name, ds, prof) ==
    IF prof > Len(ds.profiles) \/ ProfileRaises(ds, prof) THEN <<>>
    ELSE IF KeepsProfile(ProfileRecord(name, ds, prof))
         THEN <<ProfileRecord(name, ds, prof)>> \o ExtractFrom_NoCatch(name, ds, prof + 1)
         ELSE ExtractFrom_NoCatch(name, ds, prof + 1)

RECURSIVE ExtractFrom(_, _, _)
ExtractFrom(name, ds, prof) ==
    IF prof > Len(ds.profiles) THEN <<>>
    ELSE LET rest == ExtractFrom(name, ds, prof + 1)
         IN  IF ProfileRaises(ds, prof) THEN rest
             ELSE IF KeepsProfile(ProfileRecord(name, ds, prof))
                  THEN <<ProfileRecord(name, ds, prof)>> \o rest
                  ELSE rest

extract_profiles(name, ds) == ExtractFrom(name, ds, 1)

ExtractErrors(name, ds) ==
    {[kind |-> "profile", file |-> name, prof |-> p] :
        p \in {q \in 1..Len(ds.profiles) : ProfileRaises(ds, q)}}

\* process_nc_file, lines 90-95: arr = arr[~np.isnan(arr)];
\* float(arr.mean()) if arr.size else np.nan.  Values are fixed-point integers.
RECURSIVE SumOf(_)
SumOf(s) == IF s = <<>> THEN 0 ELSE Val(Head(s)) + SumOf(Tail(s))

MeanOfPresent(arr) ==
    LET present == SelectSeq(arr, LAMBDA x : ~IsMissing(x))
    IN  IF Len(present) > 0 THEN Num(SumOf(present) \div Len(present)) ELSE NaN

Flatten(rec) ==
    [rec EXCEPT !.pressure = MeanOfPresent(rec.pressure),
                !.temperature = MeanOfPresent(rec.temperature),
                !.salinity = MeanOfPresent(rec.salinity)]

\* df.dropna(subset=['timestamp'])
DropNa(rows) == SelectSeq(rows, LAMBDA r : ~IsMissing(r.timestamp))

\* process_nc_file: None, or the data frame (a sequence of rows).
process_nc_file(name, entry) ==
    IF ~entry.readable THEN None
    ELSE LET records == extract_profiles(name, entry)
         IN  IF records = <<>> THEN None
             ELSE Frame(DropNa([i \in 1..Len(records) |-> Flatten(records[i])]))

\* What process_nc_file and extract_profiles print about what they skip.
ProcessLog(name, entry) ==
    IF ~entry.readable THEN {[kind |-> "file", file |-> name, prof |-> 0]}
    ELSE ExtractErrors(name, entry)
         \cup (IF extract_profiles(name, entry) = <<>>
               THEN {[kind |-> "empty", file |-> name, prof |-> 0]} ELSE {})

\* main, line 105: the entries whose name ends with "_prof.nc".
ListFiles(dir) ==
    SelectSeq([i \in 1..Len(dir) |-> i], LAMBDA i : dir[i].suffix = "_prof.nc")

\* Mutant: to_sql(..., if_exists='replace')
to_sql_replace(tbl, df) == df.rows

\* to_sql(..., if_exists='append')
to_sql(tbl, df) == tbl \o df.rows

\* The locals of handle_chat_query before a request.
NoFrame == [nrows |-> 0, columns |-> <<>>, sorted_by |-> <<>>, rows |-> "all", step |-> 1]
NoChart == [kind |-> "none"]
NoResponse == [status |-> 0]

ChatIdle ==
    /\ pc = "idle"
    /\ query = <<>>
    /\ sql_query = <<>>
    /\ data_df = NoFrame
    /\ sampled_data_df = NoFrame
    /\ insights = ""
    /\ plotly_json = NoChart
    /\ response = NoResponse
    /\ calls = <<>>
    /\ insights_arg = NoFrame
    /\ chart_arg = NoFrame
    /\ executed_sql = <<>>

InitIngest ==
    /\ ChatIdle
    /\ directory \in Directories
    /\ ipc = "idle"
    /\ run = 0
    /\ files = <<>>
    /\ idx = 0
    /\ df_clean = None
    /\ table = <<>>
    /\ n_total = 0
    /\ log = {}
    /\ written = <<>>

\* main() starts: lists the directory and enters the loop.  The script is run
\* again only after a run that completed.
StartMain ==
    /\ ipc \in {"idle", "done"}
    /\ run < MaxRuns
    /\ run' = run + 1
    /\ files' = ListFiles(directory)
    /\ idx' = 1
    /\ n_total' = 0
    /\ df_clean' = None
    /\ written' = Append(written, <<>>)
    /\ ipc' = IF ListFiles(directory) = <<>> THEN "done" ELSE "process"
    /\ UNCHANGED <<directory, table, log>>
    /\ UNCHANGED chatVars

\* main, line 112: df_clean = process_nc_file(file_path)
ProcessFile ==
    /\ ipc = "process"
    /\ df_clean' = process_nc_file(files[idx], directory[files[idx]])
    /\ log' = log \cup ProcessLog(files[idx], directory[files[idx]])
    /\ ipc' = "write"
    /\ UNCHANGED <<directory, run, files, idx, table, n_total, written>>
    /\ UNCHANGED chatVars

NextFile ==
    /\ idx' = idx + 1
    /\ ipc' = IF idx + 1 > Len(files) THEN "done" ELSE "process"

\* main, lines 113-115 with a frame to write, the database accepting it.
WriteFile ==
    /\ ipc = "write"
    /\ ~df_clean.none /\ ~IsEmptyFrame(df_clean)
    /\ table' = to_sql(table, df_clean)
    /\ n_total' = n_total + Len(df_clean.rows)
    /\ written' = [written EXCEPT ![run] = Append(@, [file |-> files[idx], rows |-> df_clean.rows])]
    /\ NextFile
    /\ UNCHANGED <<directory, run, files, df_clean, log>>
    /\ UNCHANGED chatVars

\* main, line 114: to_sql raises (database unreachable); nothing catches it.
WriteFails ==
    /\ ipc = "write"
    /\ ~df_clean.none /\ ~IsEmptyFrame(df_clean)
    /\ ipc' = "aborted"
    /\ UNCHANGED <<directory, run, files, idx, df_clean, table, n_total, log, written>>
    /\ UNCHANGED chatVars

\* main, line 113: nothing to write for this file.
SkipFile ==
    /\ ipc = "write"
    /\ (df_clean.none \/ IsEmptyFrame(df_clean))
    /\ NextFile
    /\ UNCHANGED <<directory, run, files, df_clean, table, n_total, log, written>>
    /\ UNCHANGED chatVars

NextIngest == StartMain \/ ProcessFile \/ WriteFile \/ WriteFails \/ SkipFile

SpecIngest == InitIngest /\ [][NextIngest]_vars

-----------------------------------------------------------------------------
(* main.py: values *)

\* A pandas column is a name and a dtype: "datetime64", "number" or "object".
Col(name, dtype) == [name |-> name, dtype |-> dtype]

\* A data frame by its shape: the row count, the columns in order, and which
\* rows of the SQL result it holds: all of them in result order, or the result
\* sorted by sorted_by, every step-th row of that, or a random sample.
ResultFrame(n, columns) ==
    [nrows |-> n, columns |-> columns, sorted_by |-> <<>>, rows |-> "all", step |-> 1]

Names(data) == {data.columns[i].name : i \in 1..Len(data.columns)}

\* The column lists a SQL result may have.
ColumnLists ==
    { <<Col("timestamp", "datetime64"), Col("salinity", "number")>>,
      <<Col("pressure", "number"), Col("temperature", "number")>>,
      <<Col("foo", "number"), Col("bar", "number")>>,
      <<Col("count", "number")>>,
      <<Col("latitude", "number"), Col("longitude", "number"), Col("temperature", "number")>>,
      <<Col("platform_id", "object"), Col("cycle_number", "number"), Col("latitude", "number"),
        Col("longitude", "number"), Col("timestamp", "datetime64"), Col("pressure", "number"),
        Col("temperature", "number"), Col("salinity", "number")>>,
      <<Col("timestamp", "datetime64"), Col("pressure", "number"), Col("temperature", "number")>>,
      <<Col("pressure", "number"), Col("daily_average_temperature", "number")>>,
      <<Col("daily_average_temperature", "number"), Col("pressure", "number"),
        Col("temperature", "number")>>,
      <<Col("pressure", "number"), Col("salinity", "number")>>,
      <<Col("platform_id", "object"), Col("timestamp", "datetime64")>>,
      <<Col("timestamp", "object"), Col("temperature", "number")>>,
      <<Col("platform_id", "object"), Col("temperature", "number")>>,
      <<Col("platform_id", "object"), Col("day", "datetime64"),
        Col("daily_average_temperature", "number"), Col("pressure", "number")>> }

\* The row counts a SQL result may have: the small ones, and around every
\* hundred up to MaxRows.
RowCounts == {n \in 0..MaxRows : n < 4 \/ n % 100 \in {0, 1, 99}} \cup {MaxRows}

\* The questions asked, as characters.
Questions ==
    { <<"s", "h", "o", "w", " ", "s", "a", "l", "i", "n", "i", "t", "y">>,
      <<"i", "n", " ", "2", "0", "2", "3">>,
      <<"i", "n", " ", "2", "0", "1", "9">>,
      <<"S", "i", "n", "c", "e", " ", "M", "a", "y">>,
      <<"l", "i", "f", "e", "t", "i", "m", "e">>,
      <<"m", "a", "p", " ", "f", "l", "o", "a", "t", "s">> }

\* str.lower() on the characters the questions use.
Lower(c) == IF c = "S" THEN "s" ELSE IF c = "M" THEN "m" ELSE c
LowerStr(str) == [i \in 1..Len(str) |-> Lower(str[i])]

\* keyword in text
Contains(text, keyword) ==
    \E i \in 1..Len(text) :
        /\ i + Len(keyword) - 1 <= Len(text)
        /\ SubSeq(text, i, i + Len(keyword) - 1) = keyword

\* The replies of the hosted model to the SQL prompt, as tokens: "backtick" is
\* one backtick character, " " is white space.
SqlReplies ==
    { <<"SELECT * FROM argo_profiles">>,
      <<"backtick", " ", "SELECT * FROM argo_profiles", " ", "backtick", " ">> }

-----------------------------------------------------------------------------
(* main.py: the functions *)

\* generate_sql_from_query, line 121: response.text.strip() with the backticks removed
RECURSIVE LStrip(_)
LStrip(text) == IF text # <<>> /\ Head(text) = " " THEN LStrip(Tail(text)) ELSE text

RECURSIVE RStrip(_)
RStrip(text) ==
    IF text # <<>> /\ text[Len(text)] = " " THEN RStrip(SubSeq(text, 1, Len(text) - 1)) ELSE text

CleanSql(text) == SelectSeq(RStrip(LStrip(text)), LAMBDA t : t # "backtick")

SampleThreshold == 1500
TargetSize == 1200
ProfileThreshold == 2000

time_keywords ==
    << <<"y", "e", "a", "r">>,
       <<"m", "o", "n", "t", "h">>,
       <<"d", "a", "t", "e">>,
       <<"t", "i", "m", "e">>,
       <<"r", "e", "c", "e", "n", "t">>,
       <<"l", "a", "t", "e", "s", "t">>,
       <<"l", "a", "s", "t">>,
       <<"s", "i", "n", "c", "e">>,
       <<"b", "e", "f", "o", "r", "e">>,
       <<"a", "f", "t", "e", "r">>,
       <<"b", "e", "t", "w", "e", "e", "n">>,
       <<"2", "0", "2", "0">>,
       <<"2", "0", "2", "1">>,
       <<"2", "0", "2", "2">>,
       <<"2", "0", "2", "3">>,
       <<"2", "0", "2", "4">> >>

\* sample_large_dataset, line 139
has_time_filter(user_query) ==
    \E k \in 1..Len(time_keywords) : Contains(LowerStr(user_query), time_keywords[k])

Max(a, b) == IF a >= b THEN a ELSE b
Min(a, b) == IF a <= b THEN a ELSE b

\* data.sort_values(keys)
SortValues(data, keys) == [data EXCEPT !.sorted_by = keys]

\* data.iloc[::step]: rows 0, step, 2 step, ... of the frame
EveryNth(data, step) ==
    [data EXCEPT !.nrows = (data.nrows + step - 1) \div step, !.rows = "every_nth", !.step = step]

\* data.sample(n=size, random_state=42)
RandomSample(data, size) == [data EXCEPT !.nrows = size, !.rows = "random_state_42"]

\* Mutant: the stride taken from the sampling threshold instead of the target.
Stride_Threshold(data) == Max(1, data.nrows \div SampleThreshold)

\* sample_large_dataset, lines 151, 160, 170
Stride(data) == Max(1, data.nrows \div TargetSize)

\* Mutant: the timestamp strategy tried before the geographic one.
sample_large_dataset_TimeFirst(data, user_query) ==
    IF data.nrows <= SampleThreshold THEN data
    ELSE IF has_time_filter(user_query) THEN data
    ELSE IF "timestamp" \in Names(data)
         THEN EveryNth(SortValues(data, <<"timestamp">>), Stride(data))
    ELSE IF "latitude" \in Names(data) /\ "longitude" \in Names(data)
         THEN EveryNth(SortValues(data, <<"latitude", "longitude">>), Stride(data))
    ELSE IF "pressure" \in Names(data)
            /\ \E c \in {"temperature", "salinity", "daily_average_temperature"} : c \in Names(data)
         THEN IF data.nrows > ProfileThreshold THEN EveryNth(data, Stride(data)) ELSE data
    ELSE RandomSample(data, Min(TargetSize, data.nrows))

\* Mutant: the threshold itself already counts as large.
sample_large_dataset_StrictThreshold(data, user_query) ==
    IF data.nrows < SampleThreshold THEN data
    ELSE IF has_time_filter(user_query) THEN data
    ELSE IF "latitude" \in Names(data) /\ "longitude" \in Names(data)
         THEN EveryNth(SortValues(data, <<"latitude", "longitude">>), Stride(data))
    ELSE IF "timestamp" \in Names(data)
         THEN EveryNth(SortValues(data, <<"timestamp">>), Stride(data))
    ELSE IF "pressure" \in Names(data)
            /\ \E c \in {"temperature", "salinity", "daily_average_temperature"} : c \in Names(data)
         THEN IF data.nrows > ProfileThreshold THEN EveryNth(data, Stride(data)) ELSE data
    ELSE RandomSample(data, Min(TargetSize, data.nrows))

\* sample_large_dataset, lines 130-181
sample_large_dataset(data, user_query) ==
    IF data.nrows <= SampleThreshold THEN data
    ELSE IF has_time_filter(user_query) THEN data
    ELSE IF "latitude" \in Names(data) /\ "longitude" \in Names(data)
         THEN EveryNth(SortValues(data, <<"latitude", "longitude">>), Stride(data))
    ELSE IF "timestamp" \in Names(data)
         THEN EveryNth(SortValues(data, <<"timestamp">>), Stride(data))
    ELSE IF "pressure" \in Names(data)
            /\ \E c \in {"temperature", "salinity", "daily_average_temperature"} : c \in Names(data)
         THEN IF data.nrows > ProfileThreshold THEN EveryNth(data, Stride(data)) ELSE data
    ELSE RandomSample(data, Min(TargetSize, data.nrows))

\* data.select_dtypes(include=['number']).columns.tolist()
NumericCols(data) ==
    LET numeric == SelectSeq(data.columns, LAMBDA c : c.dtype = "number")
    IN  [i \in 1..Len(numeric) |-> numeric[i].name]

\* [col for col in columns if pd.api.types.is_datetime64_any_dtype(data[col])]
DatetimeCols(data) ==
    LET dt == SelectSeq(data.columns, LAMBDA c : c.dtype = "datetime64")
    IN  [i \in 1..Len(dt) |-> dt[i].name]

\* The chart of lines 279-311.
TimeSeriesChart(data) ==
    [kind |-> "time_series",
     x |-> DatetimeCols(data)[1],
     y |-> NumericCols(data)[1],
     mode |-> IF data.nrows > 500 THEN "lines" ELSE "lines+markers",
     marker_size |-> IF data.nrows > 500 THEN 3 ELSE IF data.nrows > 100 THEN 4 ELSE 6,
     yaxis_autorange |-> "default",
     points |-> data.nrows]

\* Mutant: daily_average_temperature preferred over temperature.
ProfileChart_DailyFirst(data) ==
    [kind |-> "depth_profile",
     x |-> IF "daily_average_temperature" \in Names(data)
           THEN "daily_average_temperature" ELSE "temperature",
     y |-> "pressure",
     mode |-> "lines+markers",
     marker_size |-> 4,
     yaxis_autorange |-> "reversed",
     points |-> data.nrows]

\* The chart of lines 319-352.
ProfileChart(data) ==
    [kind |-> "depth_profile",
     x |-> IF "temperature" \in Names(data) THEN "temperature" ELSE "daily_average_temperature",
     y |-> "pressure",
     mode |-> "lines+markers",
     marker_size |-> 4,
     yaxis_autorange |-> "reversed",
     points |-> data.nrows]

\* Mutant: the two numeric columns bound to the wrong axes.
ScatterChart_Swapped(data) ==
    [kind |-> "scatter",
     x |-> NumericCols(data)[2],
     y |-> NumericCols(data)[1],
     mode |-> "lines+markers",
     marker_size |-> 4,
     yaxis_autorange |-> "default",
     points |-> data.nrows]

\* The chart of lines 360-391.
ScatterChart(data) ==
    [kind |-> "scatter",
     x |-> NumericCols(data)[1],
     y |-> NumericCols(data)[2],
     mode |-> "lines+markers",
     marker_size |-> 4,
     yaxis_autorange |-> "default",
     points |-> data.nrows]

\* Mutant: the depth-profile rule tried before the time-series rule.
generate_visualization_ProfileFirst(data) ==
    IF data.nrows = 0 \/ data.nrows < 2 THEN NoChart
    ELSE IF "pressure" \in Names(data)
            /\ \E c \in {"temperature", "daily_average_temperature"} : c \in Names(data)
         THEN ProfileChart(data)
    ELSE IF DatetimeCols(data) # <<>>
         THEN IF NumericCols(data) # <<>> THEN TimeSeriesChart(data) ELSE NoChart
    ELSE IF Len(NumericCols(data)) >= 2 THEN ScatterChart(data)
    ELSE NoChart

generate_visualization(data) ==
    IF data.nrows = 0 \/ data.nrows < 2 THEN NoChart
    ELSE IF DatetimeCols(data) # <<>>
         THEN IF NumericCols(data) # <<>> THEN TimeSeriesChart(data) ELSE NoChart
    ELSE IF "pressure" \in Names(data)
            /\ \E c \in {"temperature", "daily_average_temperature"} : c \in Names(data)
         THEN ProfileChart(data)
    ELSE IF Len(NumericCols(data)) >= 2 THEN ScatterChart(data)
    ELSE NoChart

NoDataMessage == "No data was found for your query."

-----------------------------------------------------------------------------
(* main.py: handle_chat_query *)

IngestIdle ==
    /\ directory = <<>>
    /\ ipc = "idle"
    /\ run = 0
    /\ files = <<>>
    /\ idx = 0
    /\ df_clean = None
    /\ table = <<>>
    /\ n_total = 0
    /\ log = {}
    /\ written = <<>>

InitChat == IngestIdle /\ ChatIdle

\* POST /chat arrives: the handler starts with its locals unset.
Receive ==
    /\ pc = "idle"
    /\ query' \in Questions
    /\ pc' = "retrieve"
    /\ sql_query' = <<>>
    /\ data_df' = NoFrame
    /\ sampled_data_df' = NoFrame
    /\ insights' = ""
    /\ plotly_json' = NoChart
    /\ response' = NoResponse
    /\ calls' = <<>>
    /\ insights_arg' = NoFrame
    /\ chart_arg' = NoFrame
    /\ executed_sql' = <<>>
    /\ UNCHANGED ingestVars

\* Mutant: the failed step is reported but the request carries on from it.
Raise_Retry(step, message) ==
    /\ calls' = Append(calls, step)
    /\ response' = [status |-> 500, detail |-> <<"Error processing query: ", message>>]
    /\ pc' = pc

\* handle_chat_query, lines 451-455: any exception becomes HTTP 500 with its message.
Raise(step, message) ==
    /\ calls' = Append(calls, step)
    /\ response' = [status |-> 500, detail |-> <<"Error processing query: ", message>>]
    /\ pc' = "idle"

\* Mutant: insight generation placed before the sampling.
AfterStep_InsightsFirst(step) ==
    CASE step = "retrieve" -> "generate_sql"
      [] step = "generate_sql" -> "execute"
      [] step = "execute" -> "insights"
      [] step = "insights" -> "sample"
      [] step = "sample" -> "visualize"
      [] step = "visualize" -> "respond"

\* handle_chat_query, lines 419-450: the statement that follows each one.
AfterStep(step) ==
    CASE step = "retrieve" -> "generate_sql"
      [] step = "generate_sql" -> "execute"
      [] step = "execute" -> "sample"
      [] step = "sample" -> "insights"
      [] step = "insights" -> "visualize"
      [] step = "visualize" -> "respond"

\* generate_sql_from_query, line 73: schema_collection.query
RetrieveSchema ==
    /\ pc = "retrieve"
    /\ calls' = Append(calls, "embedding_lookup")
    /\ pc' = AfterStep(pc)
    /\ UNCHANGED <<query, sql_query, data_df, sampled_data_df, insights, plotly_json,
                   response, insights_arg, chart_arg>>
    /\ UNCHANGED <<executed_sql, ingestVars>>

RetrieveSchemaFails ==
    /\ pc = "retrieve"
    /\ Raise("embedding_lookup", "schema collection unavailable")
    /\ UNCHANGED <<query, sql_query, data_df, sampled_data_df, insights, plotly_json,
                   insights_arg, chart_arg>>
    /\ UNCHANGED <<executed_sql, ingestVars>>

\* generate_sql_from_query, lines 120-123: model.generate_content and the clean-up
GenerateSql ==
    /\ pc = "generate_sql"
    /\ \E reply \in SqlReplies : sql_query' = CleanSql(reply)
    /\ calls' = Append(calls, "sql_generation")
    /\ pc' = AfterStep(pc)
    /\ UNCHANGED <<query, data_df, sampled_data_df, insights, plotly_json,
                   response, insights_arg, chart_arg>>
    /\ UNCHANGED <<executed_sql, ingestVars>>

GenerateSqlFails ==
    /\ pc = "generate_sql"
    /\ Raise("sql_generation", "hosted model unreachable")
    /\ UNCHANGED <<query, sql_query, data_df, sampled_data_df, insights, plotly_json,
                   insights_arg, chart_arg>>
    /\ UNCHANGED <<executed_sql, ingestVars>>

\* execute_sql_query, lines 125-128
ExecuteSql ==
    /\ pc = "execute"
    /\ executed_sql' = sql_query
    /\ \E n \in RowCounts, columns \in ColumnLists : data_df' = ResultFrame(n, columns)
    /\ calls' = Append(calls, "database_query")
    /\ pc' = AfterStep(pc)
    /\ UNCHANGED <<query, sql_query, sampled_data_df, insights, plotly_json,
                   response, insights_arg, chart_arg>>
    /\ UNCHANGED ingestVars

ExecuteSqlFails ==
    /\ pc = "execute"
    /\ executed_sql' = sql_query
    /\ Raise("database_query", "SQL execution error")
    /\ UNCHANGED <<query, sql_query, data_df, sampled_data_df, insights, plotly_json,
                   insights_arg, chart_arg>>
    /\ UNCHANGED ingestVars

\* handle_chat_query, line 437
Sample ==
    /\ pc = "sample"
    /\ sampled_data_df' = sample_large_dataset(data_df, query)
    /\ calls' = Append(calls, "sampling")
    /\ pc' = AfterStep(pc)
    /\ UNCHANGED <<query, sql_query, data_df, insights, plotly_json,
                   response, insights_arg, chart_arg>>
    /\ UNCHANGED <<executed_sql, ingestVars>>

\* Mutant: the sampled frame passed to generate_insights.
InsightsFrame_Sampled == sampled_data_df

\* The frame handle_chat_query passes to generate_insights (line 441).
InsightsFrame == data_df

\* The frame handle_chat_query passes to generate_visualization (line 444).
ChartFrame == sampled_data_df

\* Mutant: no table counts as empty.
IsEmpty_Never(data) == data.nrows < 0

\* generate_insights, line 185: data.empty
IsEmpty(data) == data.nrows = 0

\* generate_insights on an empty frame, lines 185-186: no hosted call.
InsightsNoData ==
    /\ pc = "insights"
    /\ IsEmpty(InsightsFrame)
    /\ insights_arg' = InsightsFrame
    /\ insights' = NoDataMessage
    /\ pc' = AfterStep(pc)
    /\ UNCHANGED <<query, sql_query, data_df, sampled_data_df, plotly_json, response,
                   calls, chart_arg>>
    /\ UNCHANGED <<executed_sql, ingestVars>>

\* generate_insights, lines 188-251: the summary and the hosted call.
Insights ==
    /\ pc = "insights"
    /\ ~IsEmpty(InsightsFrame)
    /\ insights_arg' = InsightsFrame
    /\ insights' = "insight text"
    /\ calls' = Append(calls, "insight_generation")
    /\ pc' = AfterStep(pc)
    /\ UNCHANGED <<query, sql_query, data_df, sampled_data_df, plotly_json, response,
                   chart_arg>>
    /\ UNCHANGED <<executed_sql, ingestVars>>

InsightsFails ==
    /\ pc = "insights"
    /\ ~IsEmpty(InsightsFrame)
    /\ insights_arg' = InsightsFrame
    /\ Raise("insight_generation", "hosted model unreachable")
    /\ UNCHANGED <<query, sql_query, data_df, sampled_data_df, insights, plotly_json,
                   chart_arg>>
    /\ UNCHANGED <<executed_sql, ingestVars>>

\* handle_chat_query, line 444
Visualize ==
    /\ pc = "visualize"
    /\ chart_arg' = ChartFrame
    /\ plotly_json' = generate_visualization(ChartFrame)
    /\ calls' = Append(calls, "chart_selection")
    /\ pc' = AfterStep(pc)
    /\ UNCHANGED <<query, sql_query, data_df, sampled_data_df, insights, response,
                   insights_arg>>
    /\ UNCHANGED <<executed_sql, ingestVars>>

\* handle_chat_query, lines 446-450
Respond ==
    /\ pc = "respond"
    /\ response' = [status |-> 200, insights |-> insights, plotly_json |-> plotly_json,
                    sql_query |-> sql_query]
    /\ pc' = "idle"
    /\ UNCHANGED <<query, sql_query, data_df, sampled_data_df, insights, plotly_json,
                   calls, insights_arg, chart_arg>>
    /\ UNCHANGED <<executed_sql, ingestVars>>

NextChat ==
    \/ Receive
    \/ RetrieveSchema \/ RetrieveSchemaFails
    \/ GenerateSql \/ GenerateSqlFails
    \/ ExecuteSql \/ ExecuteSqlFails
    \/ Sample
    \/ InsightsNoData \/ Insights \/ InsightsFails
    \/ Visualize
    \/ Respond

SpecChat == InitChat /\ [][NextChat]_vars

\* The two programs side by side: they share no state.
Init == InitIngest
Next == NextIngest \/ NextChat
Spec == Init /\ [][Next]_vars

-----------------------------------------------------------------------------
(* Claims about ingestion *)

\* Stated from the input alone: profile p of directory entry f is readable,
\* well formed and dated 2024-01-01 (day 27028 after 1950-01-01) or later.
GoodProfile(f, p) ==
    /\ directory[f].suffix = "_prof.nc"
    /\ directory[f].readable
    /\ CoreSourceNames \subseteq directory[f].variables
    /\ ~directory[f].profiles[p].short
    /\ ~IsMissing(directory[f].profiles[p].JULD)
    /\ Val(directory[f].profiles[p].JULD) >= 27028

GoodProfiles ==
    {fp \in (1..Len(directory)) \X (1..MaxProf + 1) :
        fp[2] <= Len(directory[fp[1]].profiles) /\ GoodProfile(fp[1], fp[2])}

RowsOf(rows, f, p) == {i \in 1..Len(rows) : rows[i].platform_id = f /\ rows[i].cycle_number = p}

\* C1: every row of argo_profiles has a timestamp, a pressure, a temperature
\* and a salinity, none missing, and a timestamp of year YEAR_FILTER or later.
C1_PersistedRowsComplete ==
    \A i \in 1..Len(table) :
        /\ ~IsMissing(table[i].timestamp)
        /\ ~IsMissing(table[i].pressure)
        /\ ~IsMissing(table[i].temperature)
        /\ ~IsMissing(table[i].salinity)
        /\ YearOf(table[i].timestamp) >= YEAR_FILTER

\* C2: pressure, temperature and salinity come from the adjusted variable when
\* the dataset has it with a level present, and from the raw variable
\* otherwise: a readable dataset with only the raw variables yields, for each
\* well-formed in-year profile, a record with the three fields filled.
C2_AdjustedElseRaw ==
    ipc = "write" =>
        LET f == files[idx]
            ds == directory[f]
            InYear(p) == /\ ~ds.profiles[p].short
                         /\ ~IsMissing(ds.profiles[p].JULD)
                         /\ Val(ds.profiles[p].JULD) >= 27028
        IN  ds.readable =>
              \A p \in 1..Len(ds.profiles) :
                InYear(p) =>
                  \E i \in 1..Len(df_clean.rows) :
                    /\ df_clean.rows[i].cycle_number = p
                    /\ RawNames \subseteq ds.variables /\ ds.variables \cap {"PRES_ADJUSTED", "TEMP_ADJUSTED", "PSAL_ADJUSTED"} = {}
                         => /\ ~IsMissing(df_clean.rows[i].pressure)
                            /\ ~IsMissing(df_clean.rows[i].temperature)
                            /\ ~IsMissing(df_clean.rows[i].salinity)
                    /\ ("PRES_ADJUSTED" \in ds.variables /\ ds.profiles[p].PRES = GoodLevels)
                         => df_clean.rows[i].pressure = Num(15)

\* C3: a malformed profile or an unreadable file never aborts a run.  The run
\* stops early only on a write of a frame that was extracted; at the write of
\* a file every good profile of it is in the frame and every profile that
\* raised is logged; when the run is done every good profile of every file, the
\* later ones included, has its row in what the run wrote, and every unreadable
\* file is logged.
C3_MalformedInputSkipped ==
    /\ ipc = "aborted" => \E p \in 1..MaxProf + 1 : <<files[idx], p>> \in GoodProfiles
    /\ ipc = "write" =>
         /\ \A fp \in GoodProfiles :
               fp[1] = files[idx] => RowsOf(df_clean.rows, fp[1], fp[2]) # {}
         /\ \A p \in 1..Len(directory[files[idx]].profiles) :
               (directory[files[idx]].readable /\ directory[files[idx]].profiles[p].short)
                 => [kind |-> "profile", file |-> files[idx], prof |-> p] \in log
    /\ ipc = "done" =>
         /\ \A fp \in GoodProfiles :
               \E k \in 1..Len(written[run]) :
                  /\ written[run][k].file = fp[1]
                  /\ RowsOf(written[run][k].rows, fp[1], fp[2]) # {}
         /\ \A f \in 1..Len(directory) :
               (directory[f].suffix = "_prof.nc" /\ ~directory[f].readable)
                 => [kind |-> "file", file |-> f, prof |-> 0] \in log

\* A run in which a profile of the first file raised: another profile of that
\* file and a profile of the second file were still written.
C3_Witness ==
    /\ ipc = "done"
    /\ \E l \in log : l.kind = "profile" /\ l.file = 1
    /\ \E i \in 1..Len(table) : table[i].platform_id = 1
    /\ \E i \in 1..Len(table) : table[i].platform_id = 2

\* C4: after k completed runs over the same directory the table holds k times
\* the rows one run contributes: each good profile has exactly k rows, and
\* the rows of the earlier runs are still there, in place.
C4_AppendDoubles ==
    ipc = "done" =>
        /\ Len(table) = run * Cardinality(GoodProfiles)
        /\ \A fp \in GoodProfiles : Cardinality(RowsOf(table, fp[1], fp[2])) = run
        /\ \A i \in 1..Len(table) :
              i > Cardinality(GoodProfiles) => table[i] = table[i - Cardinality(GoodProfiles)]

C4_Witness ==
    /\ ipc = "done"
    /\ run = 2
    /\ Cardinality(GoodProfiles) >= 2
    /\ Len(table) = 2 * Cardinality(GoodProfiles)

-----------------------------------------------------------------------------
(* Claims about the sampler and the chart selection *)

Sampled == pc \in {"insights", "visualize", "respond"}

IsDigit(c) == c \in {"0", "1", "2", "3", "4", "5", "6", "7", "8", "9"}

\* The question holds four digits in a row.
HasFourDigitYear(text) ==
    \E i \in 1..Len(text) :
        i + 3 <= Len(text) /\ \A j \in i..i + 3 : IsDigit(text[j])

\* The question holds one of the time words the sentence names.
HasTimeWord(text) ==
    \E w \in { <<"y", "e", "a", "r">>, <<"m", "o", "n", "t", "h">>, <<"d", "a", "t", "e">>,
               <<"r", "e", "c", "e", "n", "t">>, <<"s", "i", "n", "c", "e">> } :
        Contains(LowerStr(text), w)

GeoColumns == "latitude" \in Names(data_df) /\ "longitude" \in Names(data_df)

ProfileColumns ==
    /\ "pressure" \in Names(data_df)
    /\ \E c \in {"temperature", "salinity", "daily_average_temperature"} : c \in Names(data_df)

\* The frame is the result sorted by keys, every step-th row.
IsStrideOf(frame, source, keys, step) ==
    /\ frame.rows = "every_nth"
    /\ frame.sorted_by = keys
    /\ frame.step = step
    /\ frame.columns = source.columns
    /\ frame.nrows * step >= source.nrows
    /\ (frame.nrows - 1) * step < source.nrows

\* C5: a question with a time word or any four-digit year gets the result
\* table back unchanged, whatever its size and columns.
C5_TimeQuestionUnsampled ==
    (Sampled /\ (HasTimeWord(query) \/ HasFourDigitYear(query))) => sampled_data_df = data_df

\* C6: above the threshold, with latitude and longitude and no time keyword
\* (nor any year) in the question, the sample has between target_size and
\* target_size + stride rows.
C6_StrideRowCount ==
    (Sampled /\ data_df.nrows > SampleThreshold /\ GeoColumns
        /\ ~has_time_filter(query) /\ ~HasFourDigitYear(query)) =>
        /\ sampled_data_df.step = Max(1, data_df.nrows \div TargetSize)
        /\ sampled_data_df.nrows >= TargetSize
        /\ sampled_data_df.nrows <= TargetSize + sampled_data_df.step

\* C6 as amended: the stride is N = max(1, row_count // 1200) and the sample
\* has ceil(row_count / N) rows, at least target_size and fewer than twice
\* target_size; for 5000 rows N = 4 and the sample has 1250 rows.
C6_StrideRowCountAmended ==
    (Sampled /\ data_df.nrows > SampleThreshold /\ GeoColumns /\ ~has_time_filter(query)) =>
        /\ sampled_data_df.step = Max(1, data_df.nrows \div TargetSize)
        /\ sampled_data_df.nrows * sampled_data_df.step >= data_df.nrows
        /\ (sampled_data_df.nrows - 1) * sampled_data_df.step < data_df.nrows
        /\ sampled_data_df.nrows >= TargetSize
        /\ sampled_data_df.nrows < 2 * TargetSize
        /\ data_df.nrows = 5000 => (sampled_data_df.step = 4 /\ sampled_data_df.nrows = 1250)

C6_Witness ==
    /\ Sampled /\ GeoColumns /\ ~has_time_filter(query)
    /\ data_df.nrows = 5000
    /\ sampled_data_df.nrows = 1250

\* C7: above the threshold and without a time keyword (nor any year) in the
\* question the strategy is (a) latitude and longitude: sorted by them, every
\* Nth row; (b) else timestamp: sorted by it, every Nth row; (c) else a
\* fixed-seed random sample.
C7_StrategyPriority ==
    (Sampled /\ data_df.nrows > SampleThreshold
        /\ ~has_time_filter(query) /\ ~HasFourDigitYear(query)) =>
        IF GeoColumns
        THEN IsStrideOf(sampled_data_df, data_df, <<"latitude", "longitude">>,
                        Max(1, data_df.nrows \div 1200))
        ELSE IF "timestamp" \in Names(data_df)
        THEN IsStrideOf(sampled_data_df, data_df, <<"timestamp">>,
                        Max(1, data_df.nrows \div 1200))
        ELSE sampled_data_df.rows = "random_state_42"

\* C7 as amended: between (b) and the random sample there is the profile
\* strategy: with pressure and one of temperature, salinity,
\* daily_average_temperature, every Nth row in result order when there are more
\* than 2000 rows and the table unchanged otherwise; the random sample, of
\* min(1200, row_count) rows, is for every other column set.
C7_StrategyPriorityAmended ==
    (Sampled /\ data_df.nrows > SampleThreshold /\ ~has_time_filter(query)) =>
        IF GeoColumns
        THEN IsStrideOf(sampled_data_df, data_df, <<"latitude", "longitude">>,
                        Max(1, data_df.nrows \div 1200))
        ELSE IF "timestamp" \in Names(data_df)
        THEN IsStrideOf(sampled_data_df, data_df, <<"timestamp">>,
                        Max(1, data_df.nrows \div 1200))
        ELSE IF ProfileColumns
        THEN IF data_df.nrows > 2000
             THEN IsStrideOf(sampled_data_df, data_df, <<>>, Max(1, data_df.nrows \div 1200))
             ELSE sampled_data_df = data_df
        ELSE /\ sampled_data_df.rows = "random_state_42"
             /\ sampled_data_df.nrows = 1200
             /\ sampled_data_df.columns = data_df.columns
             /\ sampled_data_df.sorted_by = <<>>

\* A pressure/temperature table of more than 2000 rows, sampled in result order.
C7_Witness ==
    /\ Sampled /\ ~has_time_filter(query)
    /\ ProfileColumns /\ ~GeoColumns /\ "timestamp" \notin Names(data_df)
    /\ data_df.nrows > 2000
    /\ sampled_data_df.rows = "every_nth"
    /\ sampled_data_df.sorted_by = <<>>

\* C8: generate_insights is called with the full, unsampled SQL result, the
\* sampled frame goes to the chart selection only, and sampling leaves the SQL
\* result as it was.
C8_InsightsSeeFullResult ==
    /\ ("insight_generation" \in {calls[i] : i \in 1..Len(calls)} \/ pc \in {"visualize", "respond"})
         => /\ insights_arg = data_df
            /\ insights_arg.rows = "all" /\ insights_arg.sorted_by = <<>> /\ insights_arg.step = 1
    /\ pc = "respond" => chart_arg = sampled_data_df
    /\ Sampled => (data_df.rows = "all" /\ data_df.sorted_by = <<>> /\ data_df.step = 1)

\* A request whose result was really sampled.
C8_Witness ==
    /\ pc = "respond"
    /\ sampled_data_df.nrows < data_df.nrows
    /\ insights_arg = data_df
    /\ chart_arg = sampled_data_df

FirstOfDtype(frame, dtype, name) ==
    \E i \in 1..Len(frame.columns) :
        /\ frame.columns[i].dtype = dtype
        /\ frame.columns[i].name = name
        /\ \A j \in 1..i - 1 : frame.columns[j].dtype # dtype

HasDtype(frame, dtype) == \E i \in 1..Len(frame.columns) : frame.columns[i].dtype = dtype

\* C9: with at least 2 rows, a date/time column and a numeric column the
\* chart is the time series of the first date/time column against the first
\* numeric column, also when pressure and temperature are there.
C9_TimeSeriesFirst ==
    (pc = "respond" /\ chart_arg.nrows >= 2
        /\ HasDtype(chart_arg, "datetime64") /\ HasDtype(chart_arg, "number")) =>
        /\ plotly_json.kind = "time_series"
        /\ FirstOfDtype(chart_arg, "datetime64", plotly_json.x)
        /\ FirstOfDtype(chart_arg, "number", plotly_json.y)

C9_Witness ==
    /\ pc = "respond"
    /\ chart_arg.nrows >= 2
    /\ {"pressure", "temperature"} \subseteq Names(chart_arg)
    /\ plotly_json.kind = "time_series"

\* C10: with at least 2 rows, no date/time column, pressure and a
\* temperature-like column the chart is the depth profile: temperature (or
\* daily_average_temperature when there is no temperature) on X, pressure on Y,
\* the Y axis reversed.
C10_DepthProfile ==
    (pc = "respond" /\ chart_arg.nrows >= 2 /\ ~HasDtype(chart_arg, "datetime64")
        /\ "pressure" \in Names(chart_arg)
        /\ ("temperature" \in Names(chart_arg) \/ "daily_average_temperature" \in Names(chart_arg))) =>
        /\ plotly_json.kind = "depth_profile"
        /\ "temperature" \in Names(chart_arg) => plotly_json.x = "temperature"
        /\ "temperature" \notin Names(chart_arg) => plotly_json.x = "daily_average_temperature"
        /\ plotly_json.y = "pressure"
        /\ plotly_json.yaxis_autorange = "reversed"

C10_Witness ==
    /\ pc = "respond"
    /\ {"pressure", "temperature", "daily_average_temperature"} \subseteq Names(chart_arg)
    /\ plotly_json.kind = "depth_profile"
    /\ plotly_json.x = "temperature"

NumericCount(frame) ==
    Cardinality({i \in 1..Len(frame.columns) : frame.columns[i].dtype = "number"})

HasProfilePair(frame) ==
    /\ "pressure" \in Names(frame)
    /\ ("temperature" \in Names(frame) \/ "daily_average_temperature" \in Names(frame))

\* No rule matches: no date/time column, no pressure plus temperature-like
\* pair, fewer than two numeric columns.
NoRuleMatches(frame) ==
    /\ ~HasDtype(frame, "datetime64")
    /\ ~HasProfilePair(frame)
    /\ NumericCount(frame) < 2

\* The columns x and y are the first and the second numeric column.
FirstTwoNumeric(frame, x, y) ==
    \E i, j \in 1..Len(frame.columns) :
        /\ i < j
        /\ frame.columns[i].dtype = "number" /\ frame.columns[i].name = x
        /\ frame.columns[j].dtype = "number" /\ frame.columns[j].name = y
        /\ \A k \in 1..j - 1 : k # i => frame.columns[k].dtype # "number"

ChartKinds == {"none", "time_series", "depth_profile", "scatter"}

\* C11: generate_visualization returns one chart or none; none only with
\* fewer than 2 rows or when no rule matches; with two numeric columns and no
\* earlier match the scatter of the first two numeric columns; a single-column
\* result gives no chart.
C11_NoneOnlyWithoutMatch ==
    pc = "respond" =>
        /\ plotly_json.kind \in ChartKinds
        /\ plotly_json.kind = "none" => (chart_arg.nrows < 2 \/ NoRuleMatches(chart_arg))
        /\ (chart_arg.nrows >= 2 /\ ~HasDtype(chart_arg, "datetime64")
                /\ ~HasProfilePair(chart_arg) /\ NumericCount(chart_arg) >= 2)
             => /\ plotly_json.kind = "scatter"
                /\ FirstTwoNumeric(chart_arg, plotly_json.x, plotly_json.y)
        /\ Len(chart_arg.columns) = 1 => plotly_json.kind = "none"

\* C11 as amended: none is returned exactly when the table has fewer than 2
\* rows, or has a date/time column but no numeric column, or no rule matches.
C11_NoneOnlyWithoutMatchAmended ==
    pc = "respond" =>
        /\ plotly_json.kind \in ChartKinds
        /\ plotly_json.kind = "none" <=>
              \/ chart_arg.nrows < 2
              \/ HasDtype(chart_arg, "datetime64") /\ NumericCount(chart_arg) = 0
              \/ NoRuleMatches(chart_arg)
        /\ (chart_arg.nrows >= 2 /\ ~HasDtype(chart_arg, "datetime64")
                /\ ~HasProfilePair(chart_arg) /\ NumericCount(chart_arg) >= 2)
             => /\ plotly_json.kind = "scatter"
                /\ FirstTwoNumeric(chart_arg, plotly_json.x, plotly_json.y)
        /\ Len(chart_arg.columns) = 1 => plotly_json.kind = "none"

\* A table of two numeric columns without a semantic match, charted as a scatter.
C11_Witness ==
    /\ pc = "respond"
    /\ chart_arg.nrows >= 2
    /\ NumericCount(chart_arg) = 2 /\ ~HasProfilePair(chart_arg)
    /\ plotly_json.kind = "scatter"

\* The steps of one request in the order of the handler's statements.
StepOrder ==
    <<"embedding_lookup", "sql_generation", "database_query", "sampling",
      "insight_generation", "chart_selection">>

IsPrefix(s, t) ==
    /\ Len(s) <= Len(t)
    /\ \A i \in 1..Len(s) : s[i] = t[i]

\* The message of the exception each step raises.
UnderlyingMessage(step) ==
    CASE step = "embedding_lookup" -> "schema collection unavailable"
      [] step = "sql_generation" -> "hosted model unreachable"
      [] step = "database_query" -> "SQL execution error"
      [] step = "insight_generation" -> "hosted model unreachable"
      [] OTHER -> "none"

\* C12: a request in which SQL generation, SQL execution or insight generation
\* fails ends with HTTP 500 carrying the underlying error message; every step
\* was attempted at most once, and no step after the failed one has run.
C12_FailureEndsRequest ==
    response.status = 500 =>
        /\ pc = "idle"
        /\ calls # <<>>
        /\ IsPrefix(calls, StepOrder)
        /\ calls[Len(calls)] \in
              {"embedding_lookup", "sql_generation", "database_query", "insight_generation"}
        /\ response.detail =
              <<"Error processing query: ", UnderlyingMessage(calls[Len(calls)])>>

\* Insight generation failed after the query and the sampling had succeeded.
C12_Witness ==
    /\ response.status = 500
    /\ calls = SubSeq(StepOrder, 1, 5)
    /\ data_df.nrows > 0
    /\ response.detail = <<"Error processing query: ", "hosted model unreachable">>

\* C13: every successful request performs its steps in this order: schema
\* embedding lookup, hosted SQL generation, database query, hosted insight
\* generation, and only then local sampling and chart selection.
C13_InsightsBeforeSampling ==
    (response.status = 200 /\ data_df.nrows > 0) =>
        calls = <<"embedding_lookup", "sql_generation", "database_query",
                  "insight_generation", "sampling", "chart_selection">>

\* C13 as amended: the order is embedding lookup, hosted SQL generation,
\* database query, local sampling, hosted insight generation (skipped when the
\* result has no rows), chart selection.
C13_SamplingBeforeInsights ==
    response.status = 200 =>
        calls = IF data_df.nrows = 0
                THEN <<"embedding_lookup", "sql_generation", "database_query",
                       "sampling", "chart_selection">>
                ELSE <<"embedding_lookup", "sql_generation", "database_query",
                       "sampling", "insight_generation", "chart_selection">>

\* A successful request over a result with rows, all six steps taken.
C13_Witness ==
    /\ response.status = 200
    /\ data_df.nrows > 0
    /\ Len(calls) = 6
    /\ calls[4] = "sampling" /\ calls[5] = "insight_generation"

\* C14: sample_large_dataset returns the result table unchanged (same rows,
\* same order) whenever its row count is at most the threshold, for every
\* question text and every column set.
C14_SmallTableUnchanged ==
    (Sampled /\ data_df.nrows <= SampleThreshold) => sampled_data_df = data_df

\* A table of exactly the threshold size with geographic columns, asked about
\* without a time keyword, has passed through the sampler unchanged.
C14_Witness ==
    /\ Sampled /\ ~has_time_filter(query)
    /\ GeoColumns
    /\ data_df.nrows = SampleThreshold
    /\ sampled_data_df = data_df

\* The database query of the current request has succeeded.
QueryExecuted ==
    /\ Len(calls) >= 3
    /\ calls[3] = "database_query"
    /\ ~(Len(calls) = 3 /\ response.status = 500)

\* C15: when the generated SQL executes successfully but returns zero rows,
\* the request still succeeds: insights is the fixed no-data message produced
\* without the second hosted-model call, plotly_json is null, and sql_query is
\* exactly the SQL text that was executed.
C15_EmptyResultSucceeds ==
    (QueryExecuted /\ data_df.nrows = 0) =>
        /\ response.status # 500
        /\ \A i \in 1..Len(calls) : calls[i] # "insight_generation"
        /\ pc \in {"visualize", "respond"} => insights = NoDataMessage
        /\ pc = "respond" => plotly_json = NoChart
        /\ response.status = 200 =>
              /\ response.insights = NoDataMessage
              /\ response.plotly_json = NoChart
              /\ response.sql_query = executed_sql
              /\ executed_sql = sql_query

\* A request over an empty result has been answered with HTTP 200.
C15_Witness ==
    /\ response.status = 200
    /\ data_df.nrows = 0
    /\ executed_sql # <<>>
    /\ response.sql_query = executed_sql
    /\ response.insights = NoDataMessage

====
